---- MODULE Spec2Model ----
(***************************************************************************)
(* Gnezdo Ver 1.3 (src/src/main.rs): the session orchestrator              *)
(* (run_all_queries), the browser lifecycle manager (BrowserManager,       *)
(* launch_browser), the query executor (execute_single_query) and the      *)
(* keep-alive pause (human_pause_with_keepalive), as one sequential state  *)
(* machine.  pc is the position of the single thread of control; every     *)
(* control-channel operation, file-system call and launch is a step whose  *)
(* outcome (Ok / Err) is chosen nondeterministically.                      *)
(***************************************************************************)
EXTENDS Integers, Sequences, FiniteSets, TLC

\* ------------------------------------------------------------------ bounds
MaxQueries == 2        \* longest query list explored
MaxPagesBound == 2     \* largest max_pages explored
MaxThresholdBound == 2 \* largest max_consecutive_no_next explored
MaxTotalMs == 1250     \* largest total_ms explored by SpecPause
MaxStreak == 3         \* miss_streak counts up to this many misses
MaxScrollHeight == 1100   \* the tallest page that is scrolled
MaxNameLen == 2           \* the longest query text whose directory is derived
MaxAnchors == 3        \* longest list of matched elements explored by SpecExtract

\* --------------------------------------------------------- program constants
MAX_RETRIES == 3
Interval == 400
NoSession == 0
QueryLen == 1
PauseHome == 960
PauseSubmit == 600
PausePage == 960
PauseScrolled == 750
PauseNext == 480
Tolerance == 10       \* `scroll_height - 10.0`
MinForward == 175     \* the smallest scroll_amount
MaxBack == 112        \* the largest back_amount

VARIABLES
    \* Config (loaded once, never mutated)
    nq, max_pages, max_consecutive_no_next,
    \* BrowserManager and its environment
    browser,      \* manager.browser: NoSession (None) or the id of the held Browser
    alive,        \* ids of the browser processes that are running
    launched,     \* the Browser just returned by Browser::new, not yet stored
    profile,      \* the profile directory: "absent", "empty" or "data"
    \* position of the thread of control and its return addresses
    pc, launch_ret, gat_call, restart_site,
    \* locals of run_all_queries
    query_index, retry_count, consecutive_no_next, tab,
    \* locals of execute_single_query / human_type_medium
    page, typed,
    \* locals of human_pause_with_keepalive
    total_ms, elapsed, pause_ret,
    \* page numbers of the result files present in the current query_dir
    dir_pages,
    \* history (observation only)
    slices,        \* sleep durations of the pause in progress
    keepalives,    \* keep-alive evaluations that succeeded in the pause in progress
    launched_on,   \* what the profile held when Browser::new started the process
    runs_cur,      \* executor runs started for the current query index
    fails_cur,     \* executor runs of the current query index that returned Err
    miss_streak,   \* consecutive next-page lookups that missed (up to MaxStreak)
    saved,         \* page numbers persisted by the executor run in progress
    lookup_pages,  \* page numbers on which this run looked up the next control
    attempt_empty, \* this run extracted an empty result list on some page
    attempt_miss,  \* this run missed the next-page control
    prompted,      \* acknowledgment prompts shown by this run
    op_failed,     \* a control-channel operation of this run returned Err
    stealth_failed, \* an evasion installation step before this run returned Err
    session_installs, \* evasion installations made on the browser now held
    session_runs,  \* executor runs started on the browser now held
    reported,      \* main printed the end time and the total duration
    pending_retry, \* index whose executor failed below the budget, or -1
    acq_skipped,   \* a query was skipped for acquisition failure since that failure
    \* extract_search_results
    anchors,      \* the elements matched by a[jsname="UWckNb"], in document order
    element,      \* number of matched elements the for loop has consumed
    results,      \* Vec<(title, url)>
    seen_urls,    \* HashSet<String>
    \* the page under human_scroll_to_bottom_medium and the function's locals
    scroll_y,      \* window.scrollY
    inner_height,  \* window.innerHeight
    scroll_height, \* document.body.scrollHeight
    mode_steps_remaining, current_mode,
    gain,          \* forward move of the iteration in progress, up to MinForward
    \* the query list and the result files of the run
    queries,       \* config.queries: each query a sequence of characters
    entry,         \* entries of the list whose directory has been derived
    query_dir,     \* the directory returned by init_query_result_dir
    files          \* the result files: [dir, page, query] for each file path

cfgVars == <<nq, max_pages, max_consecutive_no_next>>
mgrVars == <<browser, alive, launched, profile, launched_on>>
ctlVars == <<launch_ret, gat_call, restart_site>>
orchVars == <<query_index, retry_count, consecutive_no_next, tab>>
execVars == <<page, typed>>
pauseVars == <<total_ms, elapsed, pause_ret, slices, keepalives>>
attemptVars == <<saved, lookup_pages, attempt_empty, attempt_miss, prompted,
                 op_failed, stealth_failed>>
histVars == <<runs_cur, fails_cur, miss_streak, pending_retry, acq_skipped,
              session_installs, session_runs, reported>>

extractVars == <<anchors, element, results, seen_urls>>
scrollVars == <<scroll_y, inner_height, scroll_height, mode_steps_remaining,
                current_mode, gain>>
dirVars == <<queries, entry, query_dir, files>>

vars == <<cfgVars, scrollVars, dirVars, extractVars, mgrVars, ctlVars, orchVars,
          execVars, pauseVars,
          attemptVars, histVars, pc, dir_pages>>

Min(a, b) == IF a < b THEN a ELSE b
Max(a, b) == IF a > b THEN a ELSE b

\* A session id that no handle and no running process refers to.
FreshSid ==
    LET used == alive \cup {browser, tab, launched}
    IN CHOOSE i \in 1 .. (Cardinality(used) + 1) :
         i \notin used /\ \A j \in 1 .. (i - 1) : j \in used

\* ------------------------------------------------------------------- Init
\* State at the entry of main, after load_config: the manager is new
\* (browser = None), the profile directory is whatever an earlier run left.
InitCommon ==
    /\ browser = NoSession
    /\ alive = {}
    /\ launched = NoSession
    /\ launched_on = "none"
    /\ launch_ret = "none"
    /\ gat_call = 0
    /\ restart_site = "none"
    /\ query_index = 0
    /\ retry_count = 0
    /\ consecutive_no_next = 0
    /\ tab = NoSession
    /\ page = 0
    /\ typed = 0
    /\ elapsed = 0
    /\ slices = <<>>
    /\ keepalives = 0
    /\ dir_pages = {}
    /\ runs_cur = 0
    /\ fails_cur = 0
    /\ miss_streak = 0
    /\ prompted = 0
    /\ op_failed = FALSE
    /\ stealth_failed = FALSE
    /\ session_installs = 0
    /\ session_runs = 0
    /\ reported = FALSE
    /\ saved = {}
    /\ lookup_pages = {}
    /\ attempt_empty = FALSE
    /\ attempt_miss = FALSE
    /\ pending_retry = -1
    /\ acq_skipped = FALSE

\* No page is being extracted.
ExtractIdle ==
    /\ anchors = <<>>
    /\ element = 0
    /\ results = <<>>
    /\ seen_urls = {}

\* No page is being scrolled.
ScrollIdle ==
    /\ scroll_y = 0
    /\ inner_height = 0
    /\ scroll_height = 0
    /\ mode_steps_remaining = 0
    /\ current_mode = 0
    /\ gain = 0

\* No result directory is being derived.
DirIdle ==
    /\ queries = <<>>
    /\ entry = 0
    /\ query_dir = <<>>
    /\ files = {}

Init ==
    /\ InitCommon
    /\ ExtractIdle
    /\ ScrollIdle
    /\ DirIdle
    /\ nq \in 0 .. MaxQueries
    /\ max_pages \in 0 .. MaxPagesBound
    /\ max_consecutive_no_next \in 0 .. MaxThresholdBound
    /\ profile \in {"absent", "empty", "data"}
    /\ pc = "main_init"
    /\ total_ms = 0
    /\ pause_ret = "none"

\* ------------------------------------------------------------- launch_browser
\* clear_profile_dir: remove_dir_all when the path exists; launch_browser
\* discards the result (`let _ = clear_profile_dir(config)`), so a failed
\* removal leaves the directory as it was and the launch goes on.
ClearProfileDir ==
    /\ pc = "launch_clear"
    /\ \E ok \in BOOLEAN :
         profile' = IF profile # "absent" /\ ok THEN "absent" ELSE profile
    /\ pc' = "launch_init"
    /\ UNCHANGED <<cfgVars, scrollVars, dirVars, extractVars,
                   browser, alive, launched, launched_on,
                   ctlVars, orchVars, execVars, pauseVars, attemptVars, histVars,
                   dir_pages>>

\* init_profile_dir: create_dir_all; an error is propagated by `?`.
InitProfileDir ==
    /\ pc = "launch_init"
    /\ \E ok \in BOOLEAN :
         IF ok
         THEN /\ profile' = IF profile = "absent" THEN "empty" ELSE profile
              /\ pc' = "launch_start"
              /\ UNCHANGED launched
         ELSE /\ launched' = NoSession
              /\ pc' = "launch_return"
              /\ UNCHANGED profile
    /\ UNCHANGED <<cfgVars, scrollVars, dirVars, extractVars,
                   browser, alive, launched_on, ctlVars,
                   orchVars, execVars, pauseVars, attemptVars, histVars, dir_pages>>

\* Browser::new(LaunchOptions { user_data_dir, .. })?: the browser process is
\* started on the profile directory as it is now and writes its data there.
BrowserNew ==
    /\ pc = "launch_start"
    /\ \E ok \in BOOLEAN :
         IF ok
         THEN /\ alive' = alive \cup {FreshSid}
              /\ launched' = FreshSid
              /\ launched_on' = profile
              /\ profile' = "data"
         ELSE /\ launched' = NoSession
              /\ UNCHANGED <<alive, launched_on, profile>>
    /\ pc' = "launch_return"
    /\ UNCHANGED <<cfgVars, scrollVars, dirVars, extractVars,
                   browser, ctlVars, orchVars, execVars, pauseVars,
                   attemptVars, histVars, dir_pages>>

\* ------------------------------------------------------------- BrowserManager
GocOk(site) ==
    CASE site = "main_goc" -> "loop_head"
      [] site = "gat_goc" -> "gat_tabs"
      [] OTHER -> "gat_newtab"

GocErr(site) == IF site = "main_goc" THEN "aborted" ELSE "gat_err"

GocSites == {"main_goc", "gat_goc", "gat_goc2"}

\* get_or_create, first half: launch only when the manager holds no browser.
GetOrCreate ==
    /\ pc \in GocSites
    /\ IF browser = NoSession
       THEN /\ pc' = "launch_clear"
            /\ launch_ret' = pc
       ELSE /\ pc' = GocOk(pc)
            /\ UNCHANGED launch_ret
    /\ UNCHANGED <<cfgVars, scrollVars, dirVars, extractVars,
                   mgrVars, gat_call, restart_site, orchVars, execVars,
                   pauseVars, attemptVars, histVars, dir_pages>>

\* get_or_create, second half: `self.browser = Some(launch_browser(..)?)`.
\* Storing the new value drops the value held before.
GetOrCreateStore ==
    /\ pc = "launch_return"
    /\ launch_ret \in GocSites
    /\ IF launched = NoSession
       THEN /\ pc' = GocErr(launch_ret)
            /\ UNCHANGED <<browser, alive, session_installs, session_runs>>
       ELSE /\ browser' = launched
            /\ alive' = alive \ {browser}
            /\ session_installs' = 0
            /\ session_runs' = 0
            /\ pc' = GocOk(launch_ret)
    /\ launched' = NoSession
    /\ launch_ret' = "none"
    /\ UNCHANGED <<cfgVars, scrollVars, dirVars, extractVars,
                   profile, launched_on, gat_call,
                   restart_site, orchVars, execVars, pauseVars, attemptVars,
                   runs_cur, fails_cur, miss_streak, pending_retry,
                   acq_skipped, reported, dir_pages>>

\* restart, first half: `self.browser = None` drops the Browser (its process
\* is killed), then the 2000 ms settle sleep, then launch_browser.
\* Faulty variant: the old Browser is kept while the new one is launched.
MutRestartKeepsOld ==
    /\ pc = "restart_drop"
    /\ pc' = "restart_sleep"
    /\ UNCHANGED <<cfgVars, scrollVars, dirVars, extractVars,
                   mgrVars, ctlVars, orchVars, execVars,
                   pauseVars, attemptVars, histVars, dir_pages>>

RestartDrop ==
    /\ pc = "restart_drop"
    /\ browser' = NoSession
    /\ alive' = alive \ {browser}
    /\ session_installs' = 0
    /\ session_runs' = 0
    /\ pc' = "restart_sleep"
    /\ UNCHANGED <<cfgVars, scrollVars, dirVars, extractVars,
                   launched, profile, launched_on, ctlVars,
                   orchVars, execVars, pauseVars, attemptVars,
                   runs_cur, fails_cur, miss_streak, pending_retry,
                   acq_skipped, reported, dir_pages>>

\* restart, `thread::sleep(Duration::from_millis(2000));` and the call of
\* launch_browser.
\* Faulty variant: the profile is wiped before the sleep, not by the launch.
MutRestartSettleAfterWipe ==
    /\ pc = "restart_sleep"
    /\ pc' = "launch_init"
    /\ launch_ret' = "restart"
    /\ profile' = "absent"
    /\ UNCHANGED <<cfgVars, scrollVars, dirVars, extractVars,
                   browser, alive, launched, launched_on, gat_call,
                   restart_site, orchVars, execVars, pauseVars, attemptVars,
                   histVars, dir_pages>>

RestartSettle ==
    /\ pc = "restart_sleep"
    /\ pc' = "launch_clear"
    /\ launch_ret' = "restart"
    /\ UNCHANGED <<cfgVars, scrollVars, dirVars, extractVars,
                   mgrVars, gat_call, restart_site, orchVars, execVars,
                   pauseVars, attemptVars, histVars, dir_pages>>

\* restart, second half: `self.browser = Some(launch_browser(..)?)`.
RestartStore ==
    /\ pc = "launch_return"
    /\ launch_ret = "restart"
    /\ IF launched = NoSession
       THEN /\ pc' = "restart_err"
            /\ UNCHANGED <<browser, alive, session_installs, session_runs>>
       ELSE /\ browser' = launched
            /\ alive' = alive \ {browser}
            /\ session_installs' = 0
            /\ session_runs' = 0
            /\ pc' = "restart_ok"
    /\ launched' = NoSession
    /\ launch_ret' = "none"
    /\ UNCHANGED <<cfgVars, scrollVars, dirVars, extractVars,
                   profile, launched_on, gat_call,
                   restart_site, orchVars, execVars, pauseVars, attemptVars,
                   runs_cur, fails_cur, miss_streak, pending_retry,
                   acq_skipped, reported, dir_pages>>

\* ----------------------------------------------------------------------- main
\* init_result_dir(..)?: an error makes main return before anything else runs.
MainInitResultDir ==
    /\ pc = "main_init"
    /\ \E ok \in BOOLEAN : pc' = IF ok THEN "main_goc" ELSE "aborted"
    /\ UNCHANGED <<cfgVars, scrollVars, dirVars, extractVars,
                   mgrVars, ctlVars, orchVars, execVars, pauseVars,
                   attemptVars, histVars, dir_pages>>

\* After run_all_queries returned (Ok, or Err reported as fatal): end time and
\* total duration are printed and main returns Ok.
MainReport ==
    /\ pc \in {"run_ok", "run_err"}
    /\ pc' = "done"
    /\ reported' = TRUE
    /\ UNCHANGED <<cfgVars, scrollVars, dirVars, extractVars,
                   mgrVars, ctlVars, orchVars, execVars, pauseVars,
                   attemptVars, runs_cur, fails_cur, miss_streak, pending_retry,
                   acq_skipped, session_installs, session_runs, dir_pages>>

\* ------------------------------------------------------------ run_all_queries
\* Loop test, then init_query_result_dir(result_base, query)?, then the first
\* get_active_tab(manager).
LoopHead ==
    /\ pc = "loop_head"
    /\ IF query_index < nq
       THEN \E ok \in BOOLEAN :
              IF ok
              THEN pc' = "gat_goc" /\ gat_call' = 1
              ELSE pc' = "run_err" /\ UNCHANGED gat_call
       ELSE pc' = "run_ok" /\ UNCHANGED gat_call
    /\ UNCHANGED <<cfgVars, scrollVars, dirVars, extractVars,
                   mgrVars, launch_ret, restart_site, orchVars,
                   execVars, pauseVars, attemptVars, histVars, dir_pages>>

\* The query is given up without an executor run: `query_index += 1;
\* retry_count = 0; continue`.
SkipQuery ==
    /\ query_index' = query_index + 1
    /\ retry_count' = 0
    /\ tab' = NoSession
    /\ pc' = "loop_head"
    /\ gat_call' = 0
    /\ restart_site' = "none"
    /\ runs_cur' = 0
    /\ fails_cur' = 0
    /\ dir_pages' = {}
    /\ acq_skipped' = TRUE
    /\ UNCHANGED <<cfgVars, scrollVars, dirVars, extractVars,
                   mgrVars, launch_ret, consecutive_no_next, execVars,
                   pauseVars, attemptVars, miss_streak, session_installs, session_runs,
                   reported, pending_retry>>

\* get_active_tab: after get_or_create and the 500 ms sleep, the first tab of
\* the browser, the others closed; with no tab, get_or_create again.
GatTabs ==
    /\ pc = "gat_tabs"
    /\ \E has_tab \in BOOLEAN :
         IF has_tab
         THEN tab' = browser /\ pc' = "stealth_cdp"
         ELSE pc' = "gat_goc2" /\ UNCHANGED tab
    /\ UNCHANGED <<cfgVars, scrollVars, dirVars, extractVars,
                   mgrVars, ctlVars, query_index, retry_count,
                   consecutive_no_next, execVars, pauseVars, attemptVars,
                   histVars, dir_pages>>

\* get_active_tab: `Ok(browser.new_tab()?)`.
GatNewTab ==
    /\ pc = "gat_newtab"
    /\ \E ok \in BOOLEAN :
         IF ok
         THEN tab' = browser /\ pc' = "stealth_cdp"
         ELSE pc' = "gat_err" /\ UNCHANGED tab
    /\ UNCHANGED <<cfgVars, scrollVars, dirVars, extractVars,
                   mgrVars, ctlVars, query_index, retry_count,
                   consecutive_no_next, execVars, pauseVars, attemptVars,
                   histVars, dir_pages>>

\* The Err arms of the two get_active_tab calls: the first failure calls
\* manager.restart(), the failure after the restart skips the query.
\* Faulty variant: an acquisition failure skips the query at once.
MutAcquireErrNoRestart ==
    /\ pc = "gat_err"
    /\ SkipQuery

AcquireErr ==
    /\ pc = "gat_err"
    /\ IF gat_call = 1
       THEN /\ restart_site' = "acquire"
            /\ pc' = "restart_drop"
            /\ UNCHANGED <<cfgVars, scrollVars, dirVars, extractVars,
                           mgrVars, launch_ret, gat_call, orchVars,
                           execVars, pauseVars, attemptVars, histVars, dir_pages>>
       ELSE SkipQuery

\* `if let Err(restart_err) = manager.restart()` in the acquisition arm.
AcquireRestartReturn ==
    /\ pc \in {"restart_ok", "restart_err"}
    /\ restart_site = "acquire"
    /\ IF pc = "restart_err"
       THEN SkipQuery
       ELSE /\ pc' = "gat_goc"
            /\ gat_call' = 2
            /\ restart_site' = "none"
            /\ UNCHANGED <<cfgVars, scrollVars, dirVars, extractVars,
                           mgrVars, launch_ret, orchVars, execVars,
                           pauseVars, attemptVars, histVars, dir_pages>>

\* `let _ = manager.restart();` after a success or a failure of the
\* executor: the result is discarded and the loop goes on.
\* Faulty variant: the loop goes on with the tab it already has.
MutRestartKeepsTab ==
    /\ pc \in {"restart_ok", "restart_err"}
    /\ restart_site \in {"ok", "err"}
    /\ pc' = IF pc = "restart_ok" /\ query_index < nq
             THEN "stealth_cdp" ELSE "loop_head"
    /\ restart_site' = "none"
    /\ UNCHANGED <<cfgVars, scrollVars, dirVars, extractVars,
                   mgrVars, launch_ret, gat_call, orchVars, execVars,
                   pauseVars, attemptVars, histVars, dir_pages>>

RestartResultIgnored ==
    /\ pc \in {"restart_ok", "restart_err"}
    /\ restart_site \in {"ok", "err"}
    /\ pc' = "loop_head"
    /\ restart_site' = "none"
    /\ tab' = NoSession
    /\ UNCHANGED <<cfgVars, scrollVars, dirVars, extractVars,
                   mgrVars, launch_ret, gat_call, query_index,
                   retry_count, consecutive_no_next, execVars, pauseVars,
                   attemptVars, histVars, dir_pages>>

\* `let _ = setup_stealth_cdp(&tab);`: the Result of the user-agent override
\* is discarded.
SetupStealthCdp ==
    /\ pc = "stealth_cdp"
    /\ \E ok \in BOOLEAN : stealth_failed' = ~ok
    /\ pc' = "stealth_inject"
    /\ UNCHANGED <<cfgVars, scrollVars, dirVars, extractVars,
                   mgrVars, ctlVars, orchVars, execVars, pauseVars,
                   saved, lookup_pages, attempt_empty, attempt_miss, prompted,
                   op_failed, histVars, dir_pages>>

\* `let _ = inject_stealth_scripts(&tab);` and the call of
\* execute_single_query that follows it.
\* Faulty variant: `inject_stealth_scripts(&tab)?`-like handling, a failed
\* injection takes the Err arm instead of the executor.
MutInjectStealthFatal ==
    /\ pc = "stealth_inject"
    /\ \E ok \in BOOLEAN :
         /\ stealth_failed' = (stealth_failed \/ ~ok)
         /\ session_installs' = IF ok THEN session_installs + 1
                                      ELSE session_installs
         /\ pc' = IF ok THEN "exec_nav_blank" ELSE "exec_err"
    /\ session_runs' = session_runs + 1
    /\ op_failed' = FALSE
    /\ runs_cur' = runs_cur + 1
    /\ pending_retry' = -1
    /\ acq_skipped' = FALSE
    /\ saved' = {}
    /\ lookup_pages' = {}
    /\ attempt_empty' = FALSE
    /\ attempt_miss' = FALSE
    /\ prompted' = 0
    /\ page' = 0
    /\ typed' = 0
    /\ gat_call' = 0
    /\ UNCHANGED <<cfgVars, scrollVars, dirVars, extractVars,
                   mgrVars, launch_ret, restart_site, orchVars,
                   pauseVars, fails_cur, miss_streak, reported, dir_pages>>

InjectStealthScripts ==
    /\ pc = "stealth_inject"
    /\ \E ok \in BOOLEAN :
         /\ stealth_failed' = (stealth_failed \/ ~ok)
         /\ session_installs' = IF ok THEN session_installs + 1
                                      ELSE session_installs
    /\ session_runs' = session_runs + 1
    /\ pc' = "exec_nav_blank"
    /\ op_failed' = FALSE
    /\ runs_cur' = runs_cur + 1
    /\ pending_retry' = -1
    /\ acq_skipped' = FALSE
    /\ saved' = {}
    /\ lookup_pages' = {}
    /\ attempt_empty' = FALSE
    /\ attempt_miss' = FALSE
    /\ prompted' = 0
    /\ page' = 0
    /\ typed' = 0
    /\ gat_call' = 0
    /\ UNCHANGED <<cfgVars, scrollVars, dirVars, extractVars,
                   mgrVars, launch_ret, restart_site, orchVars,
                   pauseVars, fails_cur, miss_streak, reported, dir_pages>>

\* Ok arm: `query_index += 1; retry_count = 0;` and, when a query is left,
\* the 3600..7200 ms rest and `let _ = manager.restart();`.
\* Faulty variant: no restart() after a success.
MutOnOkNoRestart ==
    /\ pc = "exec_ok"
    /\ query_index' = query_index + 1
    /\ retry_count' = 0
    /\ runs_cur' = 0
    /\ fails_cur' = 0
    /\ dir_pages' = {}
    /\ pc' = "loop_head"
    /\ tab' = NoSession
    /\ UNCHANGED <<cfgVars, scrollVars, dirVars, extractVars,
                   mgrVars, ctlVars, consecutive_no_next, execVars,
                   pauseVars, attemptVars, miss_streak, session_installs, session_runs,
                   reported, pending_retry, acq_skipped>>

\* Faulty variant: the Ok arm also clears the no-next counter.
MutOnOkResetsNoNext ==
    /\ pc = "exec_ok"
    /\ query_index' = query_index + 1
    /\ retry_count' = 0
    /\ consecutive_no_next' = 0
    /\ runs_cur' = 0
    /\ fails_cur' = 0
    /\ dir_pages' = {}
    /\ IF query_index + 1 < nq
       THEN pc' = "restart_drop" /\ restart_site' = "ok" /\ UNCHANGED tab
       ELSE pc' = "loop_head" /\ tab' = NoSession /\ UNCHANGED restart_site
    /\ UNCHANGED <<cfgVars, scrollVars, dirVars, extractVars,
                   mgrVars, launch_ret, gat_call, execVars, pauseVars,
                   attemptVars, miss_streak, session_installs, session_runs, reported,
                   pending_retry, acq_skipped>>

OnOk ==
    /\ pc = "exec_ok"
    /\ query_index' = query_index + 1
    /\ retry_count' = 0
    /\ runs_cur' = 0
    /\ fails_cur' = 0
    /\ dir_pages' = {}
    /\ IF query_index + 1 < nq
       THEN pc' = "restart_drop" /\ restart_site' = "ok" /\ UNCHANGED tab
       ELSE pc' = "loop_head" /\ tab' = NoSession /\ UNCHANGED restart_site
    /\ UNCHANGED <<cfgVars, scrollVars, dirVars, extractVars,
                   mgrVars, launch_ret, gat_call, consecutive_no_next,
                   execVars, pauseVars, attemptVars, miss_streak,
                   session_installs, session_runs, reported, pending_retry, acq_skipped>>

\* Err arm: `retry_count += 1`; at MAX_RETRIES the query is skipped and the
\* count reset, below it manager.restart() is called; then `continue`.
\* Faulty variant: the failure is not counted, the query is retried after a
\* restart whatever the number of failures.
MutOnErrNoBudget ==
    /\ pc = "exec_err"
    /\ op_failed' = FALSE
    /\ pc' = "restart_drop"
    /\ restart_site' = "err"
    /\ pending_retry' = query_index
    /\ acq_skipped' = FALSE
    /\ UNCHANGED <<cfgVars, scrollVars, dirVars, extractVars,
                   mgrVars, launch_ret, gat_call, orchVars,
                   execVars, pauseVars, saved, lookup_pages, attempt_empty,
                   attempt_miss, prompted, stealth_failed, runs_cur, fails_cur,
                   miss_streak, session_installs, session_runs, reported,
                   dir_pages>>

\* Faulty variant: no restart() after a failure below the budget.
MutOnErrNoRestart ==
    /\ pc = "exec_err"
    /\ op_failed' = FALSE
    /\ IF retry_count + 1 >= MAX_RETRIES
       THEN /\ query_index' = query_index + 1
            /\ retry_count' = 0
            /\ runs_cur' = 0
            /\ fails_cur' = 0
            /\ dir_pages' = {}
            /\ UNCHANGED <<pending_retry, acq_skipped>>
       ELSE /\ retry_count' = retry_count + 1
            /\ pending_retry' = query_index
            /\ acq_skipped' = FALSE
            /\ UNCHANGED <<query_index, runs_cur, fails_cur, dir_pages>>
    /\ pc' = "loop_head"
    /\ tab' = NoSession
    /\ UNCHANGED <<cfgVars, scrollVars, dirVars, extractVars,
                   mgrVars, ctlVars, consecutive_no_next, execVars,
                   pauseVars, saved, lookup_pages, attempt_empty, attempt_miss,
                   prompted, stealth_failed, miss_streak, session_installs, session_runs,
                   reported>>

\* Faulty variant: `retry_count > MAX_RETRIES`.
MutOnErrBudgetOffByOne ==
    /\ pc = "exec_err"
    /\ op_failed' = FALSE
    /\ IF retry_count + 1 > MAX_RETRIES
       THEN /\ query_index' = query_index + 1
            /\ retry_count' = 0
            /\ runs_cur' = 0
            /\ fails_cur' = 0
            /\ dir_pages' = {}
            /\ pc' = "loop_head"
            /\ tab' = NoSession
            /\ UNCHANGED <<restart_site, pending_retry, acq_skipped>>
       ELSE /\ retry_count' = retry_count + 1
            /\ pc' = "restart_drop"
            /\ restart_site' = "err"
            /\ pending_retry' = query_index
            /\ acq_skipped' = FALSE
            /\ UNCHANGED <<query_index, tab, runs_cur, fails_cur, dir_pages>>
    /\ UNCHANGED <<cfgVars, scrollVars, dirVars, extractVars,
                   mgrVars, launch_ret, gat_call, consecutive_no_next,
                   execVars, pauseVars, saved, lookup_pages, attempt_empty,
                   attempt_miss, prompted, stealth_failed, miss_streak,
                   session_installs, session_runs, reported>>

OnErr ==
    /\ pc = "exec_err"
    /\ op_failed' = FALSE
    /\ IF retry_count + 1 >= MAX_RETRIES
       THEN /\ query_index' = query_index + 1
            /\ retry_count' = 0
            /\ runs_cur' = 0
            /\ fails_cur' = 0
            /\ dir_pages' = {}
            /\ pc' = "loop_head"
            /\ tab' = NoSession
            /\ UNCHANGED <<restart_site, pending_retry, acq_skipped>>
       ELSE /\ retry_count' = retry_count + 1
            /\ pc' = "restart_drop"
            /\ restart_site' = "err"
            /\ pending_retry' = query_index
            /\ acq_skipped' = FALSE
            /\ UNCHANGED <<query_index, tab, runs_cur, fails_cur, dir_pages>>
    /\ UNCHANGED <<cfgVars, scrollVars, dirVars, extractVars,
                   mgrVars, launch_ret, gat_call, consecutive_no_next,
                   execVars, pauseVars, saved, lookup_pages, attempt_empty,
                   attempt_miss, prompted, stealth_failed, miss_streak,
                   session_installs, session_runs, reported>>

\* -------------------------------------------------- human_pause_with_keepalive
\* The call: `let interval = 400; let mut elapsed = 0;`.
StartPause(from, ms, ret) ==
    /\ pc = from
    /\ total_ms' = ms
    /\ elapsed' = 0
    /\ slices' = <<>>
    /\ keepalives' = 0
    /\ pause_ret' = ret
    /\ pc' = "pause_loop"
    /\ UNCHANGED <<cfgVars, scrollVars, dirVars, extractVars,
                   mgrVars, ctlVars, orchVars, execVars, attemptVars,
                   histVars, dir_pages>>

\* `while elapsed < total_ms { sleep_time = (total_ms - elapsed).min(interval);
\* thread::sleep(sleep_time); elapsed += sleep_time; ..`
\* Faulty variant: every slice sleeps the whole interval.
MutPauseSleepWholeInterval ==
    /\ pc = "pause_loop"
    /\ elapsed < total_ms
    /\ elapsed' = elapsed + Interval
    /\ slices' = Append(slices, Interval)
    /\ pc' = "pause_eval"
    /\ UNCHANGED <<cfgVars, scrollVars, dirVars, extractVars,
                   mgrVars, ctlVars, orchVars, execVars, total_ms,
                   pause_ret, keepalives, attemptVars, histVars, dir_pages>>

PauseSleep ==
    /\ pc = "pause_loop"
    /\ elapsed < total_ms
    /\ LET sleep_time == Min(total_ms - elapsed, Interval)
       IN /\ elapsed' = elapsed + sleep_time
          /\ slices' = Append(slices, sleep_time)
    /\ pc' = "pause_eval"
    /\ UNCHANGED <<cfgVars, scrollVars, dirVars, extractVars,
                   mgrVars, ctlVars, orchVars, execVars, total_ms,
                   pause_ret, keepalives, attemptVars, histVars, dir_pages>>

\* `.. tab.evaluate("1", false)?; }`: an error ends the pause and, inside the
\* executor, the executor run.
PauseKeepalive ==
    /\ pc = "pause_eval"
    /\ \E ok \in BOOLEAN :
         IF ok
         THEN /\ keepalives' = keepalives + 1
              /\ pc' = "pause_loop"
              /\ UNCHANGED <<total_ms, elapsed, pause_ret, slices, fails_cur,
                             op_failed>>
         ELSE /\ pc' = IF pause_ret = "pause_returned"
                       THEN "pause_failed" ELSE "exec_err"
              /\ fails_cur' = IF pause_ret = "pause_returned"
                              THEN fails_cur ELSE fails_cur + 1
              /\ op_failed' = (pause_ret # "pause_returned")
              /\ total_ms' = 0
              /\ elapsed' = 0
              /\ slices' = <<>>
              /\ keepalives' = 0
              /\ pause_ret' = "none"
    /\ UNCHANGED <<cfgVars, scrollVars, dirVars, extractVars,
                   mgrVars, ctlVars, orchVars, execVars, saved,
                   lookup_pages, attempt_empty, attempt_miss, prompted,
                   stealth_failed, runs_cur, miss_streak, session_installs, session_runs,
                   reported, pending_retry, acq_skipped, dir_pages>>

\* Loop exit: `Ok(())`.
PauseReturn ==
    /\ pc = "pause_loop"
    /\ elapsed >= total_ms
    /\ pc' = pause_ret
    /\ total_ms' = 0
    /\ elapsed' = 0
    /\ slices' = <<>>
    /\ keepalives' = 0
    /\ pause_ret' = "none"
    /\ UNCHANGED <<cfgVars, scrollVars, dirVars, extractVars,
                   mgrVars, ctlVars, orchVars, execVars, attemptVars,
                   histVars, dir_pages>>

\* ------------------------------------------------------- execute_single_query
\* One control-channel operation followed by `?`: Ok goes on, Err returns
\* from the executor.
\* Faulty variant: the Result is discarded and the executor goes on.
MutControlOpIgnoresErr(from, to) ==
    /\ pc = from
    /\ \E ok \in BOOLEAN :
         /\ pc' = to
         /\ fails_cur' = fails_cur
         /\ op_failed' = ~ok
    /\ UNCHANGED <<cfgVars, scrollVars, dirVars, extractVars,
                   mgrVars, ctlVars, orchVars, execVars, pauseVars,
                   saved, lookup_pages, attempt_empty, attempt_miss, prompted,
                   stealth_failed, runs_cur, miss_streak, session_installs, session_runs,
                   reported, pending_retry, acq_skipped, dir_pages>>

ControlOp(from, to) ==
    /\ pc = from
    /\ \E ok \in BOOLEAN :
         /\ pc' = IF ok THEN to ELSE "exec_err"
         /\ fails_cur' = IF ok THEN fails_cur ELSE fails_cur + 1
         /\ op_failed' = ~ok
    /\ UNCHANGED <<cfgVars, scrollVars, dirVars, extractVars,
                   mgrVars, ctlVars, orchVars, execVars, pauseVars,
                   saved, lookup_pages, attempt_empty, attempt_miss, prompted,
                   stealth_failed, runs_cur, miss_streak, session_installs, session_runs,
                   reported, pending_retry, acq_skipped, dir_pages>>

NavigateBlank == ControlOp("exec_nav_blank", "exec_eval")
EvaluateInit == ControlOp("exec_eval", "exec_nav_home")
NavigateHome == ControlOp("exec_nav_home", "exec_wait_home")
WaitHome == ControlOp("exec_wait_home", "exec_pause_home")
PauseHomeCall == StartPause("exec_pause_home", PauseHome, "exec_find_box")
FindSearchBox == ControlOp("exec_find_box", "exec_click_box")
ClickSearchBox == ControlOp("exec_click_box", "exec_type")

\* human_type_medium: one send_character per character of the query.
TypeChar ==
    /\ pc = "exec_type"
    /\ IF typed < QueryLen
       THEN \E ok \in BOOLEAN :
              IF ok
              THEN /\ typed' = typed + 1
                   /\ UNCHANGED <<pc, fails_cur, op_failed>>
              ELSE /\ pc' = "exec_err"
                   /\ fails_cur' = fails_cur + 1
                   /\ op_failed' = TRUE
                   /\ UNCHANGED typed
       ELSE /\ pc' = "exec_press_enter"
            /\ UNCHANGED <<typed, fails_cur, op_failed>>
    /\ UNCHANGED <<cfgVars, scrollVars, dirVars, extractVars,
                   mgrVars, ctlVars, orchVars, page, pauseVars,
                   saved, lookup_pages, attempt_empty, attempt_miss, prompted,
                   stealth_failed, runs_cur, miss_streak, session_installs, session_runs,
                   reported, pending_retry, acq_skipped, dir_pages>>

PressEnter == ControlOp("exec_press_enter", "exec_wait_results")
WaitResults == ControlOp("exec_wait_results", "exec_pause_submit")
PauseSubmitCall == StartPause("exec_pause_submit", PauseSubmit, "page_loop")

\* `for page in 0..config.max_pages`
PageLoop ==
    /\ pc = "page_loop"
    /\ pc' = IF page < max_pages THEN "page_eval" ELSE "exec_ok"
    /\ UNCHANGED <<cfgVars, scrollVars, dirVars, extractVars,
                   mgrVars, ctlVars, orchVars, execVars, pauseVars,
                   attemptVars, histVars, dir_pages>>

PageEvaluate == ControlOp("page_eval", "page_pause")
PagePauseCall == StartPause("page_pause", PausePage, "page_content")
GetContent == ControlOp("page_content", "page_extract")

\* extract_search_results(&html), then save_search_results_json(..)? when the
\* list is not empty (File::create truncates a file that exists), else the
\* warning.
ExtractAndSave ==
    /\ pc = "page_extract"
    /\ \E nonempty \in BOOLEAN :
         IF nonempty
         THEN \E ok \in BOOLEAN :
                IF ok
                THEN /\ dir_pages' = dir_pages \cup {page + 1}
                     /\ saved' = saved \cup {page + 1}
                     /\ pc' = "page_scroll"
                     /\ UNCHANGED <<attempt_empty, fails_cur>>
                ELSE /\ pc' = "exec_err"
                     /\ fails_cur' = fails_cur + 1
                     /\ UNCHANGED <<dir_pages, saved, attempt_empty>>
         ELSE /\ attempt_empty' = TRUE
              /\ pc' = "page_scroll"
              /\ UNCHANGED <<dir_pages, saved, fails_cur>>
    /\ UNCHANGED <<cfgVars, scrollVars, dirVars, extractVars,
                   mgrVars, ctlVars, orchVars, execVars, pauseVars,
                   lookup_pages, attempt_miss, prompted, op_failed,
                   stealth_failed, runs_cur, miss_streak, session_installs, session_runs,
                   reported, pending_retry, acq_skipped>>

\* human_scroll_to_bottom_medium(tab)?
ScrollToBottom == ControlOp("page_scroll", "page_pause_scrolled")
PauseScrolledCall == StartPause("page_pause_scrolled", PauseScrolled, "page_cap")

\* `if page_num >= config.max_pages { break; }`
\* Faulty variant: `page_num > config.max_pages`.
MutPageCapOffByOne ==
    /\ pc = "page_cap"
    /\ pc' = IF page + 1 > max_pages THEN "exec_ok" ELSE "page_next"
    /\ UNCHANGED <<cfgVars, scrollVars, dirVars, extractVars,
                   mgrVars, ctlVars, orchVars, execVars, pauseVars,
                   attemptVars, histVars, dir_pages>>

PageCap ==
    /\ pc = "page_cap"
    /\ pc' = IF page + 1 >= max_pages THEN "exec_ok" ELSE "page_next"
    /\ UNCHANGED <<cfgVars, scrollVars, dirVars, extractVars,
                   mgrVars, ctlVars, orchVars, execVars, pauseVars,
                   attemptVars, histVars, dir_pages>>

\* wait_for_element_with_custom_timeout("#pnnext", 3 s), Ok arm:
\* `*consecutive_no_next = 0`.
\* Faulty variant: the counter is not cleared when the control is found.
MutNextFoundNoReset ==
    /\ pc = "page_next"
    /\ miss_streak' = 0
    /\ lookup_pages' = lookup_pages \cup {page + 1}
    /\ pc' = "next_click"
    /\ UNCHANGED <<cfgVars, scrollVars, dirVars, extractVars,
                   mgrVars, ctlVars, orchVars,
                   execVars, pauseVars, saved, attempt_empty, attempt_miss,
                   prompted, op_failed, stealth_failed, runs_cur, fails_cur,
                   pending_retry, acq_skipped, session_installs, session_runs,
                   reported, dir_pages>>

NextFound ==
    /\ pc = "page_next"
    /\ consecutive_no_next' = 0
    /\ miss_streak' = 0
    /\ lookup_pages' = lookup_pages \cup {page + 1}
    /\ pc' = "next_click"
    /\ UNCHANGED <<cfgVars, scrollVars, dirVars, extractVars,
                   mgrVars, ctlVars, query_index, retry_count, tab,
                   execVars, pauseVars, saved, attempt_empty, attempt_miss,
                   prompted, op_failed, stealth_failed, runs_cur, fails_cur,
                   pending_retry, acq_skipped, session_installs, session_runs, reported,
                   dir_pages>>

\* Err arm: `*consecutive_no_next += 1`; at the threshold the prompt is shown
\* and the run blocks on stdin; `break` either way.
\* Faulty variant: a miss below the threshold is returned as Err.
MutNextMissIsError ==
    /\ pc = "page_next"
    /\ consecutive_no_next' = consecutive_no_next + 1
    /\ miss_streak' = Min(miss_streak + 1, MaxStreak)
    /\ attempt_miss' = TRUE
    /\ lookup_pages' = lookup_pages \cup {page + 1}
    /\ IF consecutive_no_next + 1 >= max_consecutive_no_next
       THEN pc' = "ack_wait" /\ prompted' = prompted + 1
       ELSE pc' = "exec_err" /\ UNCHANGED prompted
    /\ UNCHANGED <<cfgVars, scrollVars, dirVars, extractVars,
                   mgrVars, ctlVars, query_index, retry_count, tab,
                   execVars, pauseVars, saved, attempt_empty, op_failed,
                   stealth_failed, runs_cur, fails_cur, pending_retry,
                   acq_skipped, session_installs, session_runs, reported, dir_pages>>

\* Faulty variant: `*consecutive_no_next > config.max_consecutive_no_next`.
MutNextMissAboveThreshold ==
    /\ pc = "page_next"
    /\ consecutive_no_next' = consecutive_no_next + 1
    /\ miss_streak' = Min(miss_streak + 1, MaxStreak)
    /\ attempt_miss' = TRUE
    /\ lookup_pages' = lookup_pages \cup {page + 1}
    /\ IF consecutive_no_next + 1 > max_consecutive_no_next
       THEN pc' = "ack_wait" /\ prompted' = prompted + 1
       ELSE pc' = "exec_ok" /\ UNCHANGED prompted
    /\ UNCHANGED <<cfgVars, scrollVars, dirVars, extractVars,
                   mgrVars, ctlVars, query_index, retry_count, tab,
                   execVars, pauseVars, saved, attempt_empty, op_failed,
                   stealth_failed, runs_cur, fails_cur, pending_retry,
                   acq_skipped, session_installs, session_runs, reported, dir_pages>>

NextMiss ==
    /\ pc = "page_next"
    /\ consecutive_no_next' = consecutive_no_next + 1
    /\ miss_streak' = Min(miss_streak + 1, MaxStreak)
    /\ attempt_miss' = TRUE
    /\ lookup_pages' = lookup_pages \cup {page + 1}
    /\ IF consecutive_no_next + 1 >= max_consecutive_no_next
       THEN pc' = "ack_wait" /\ prompted' = prompted + 1
       ELSE pc' = "exec_ok" /\ UNCHANGED prompted
    /\ UNCHANGED <<cfgVars, scrollVars, dirVars, extractVars,
                   mgrVars, ctlVars, query_index, retry_count, tab,
                   execVars, pauseVars, saved, attempt_empty, op_failed,
                   stealth_failed, runs_cur, fails_cur, pending_retry,
                   acq_skipped, session_installs, session_runs, reported, dir_pages>>

\* `let _ = std::io::stdin().read_line(..); *consecutive_no_next = 0;` then
\* `break`.
\* Faulty variant: the counter is left as it is after the acknowledgment.
MutOperatorAckNoReset ==
    /\ pc = "ack_wait"
    /\ pc' = "exec_ok"
    /\ UNCHANGED <<cfgVars, scrollVars, dirVars, extractVars, mgrVars, ctlVars, orchVars, execVars,
                   pauseVars, attemptVars, histVars, dir_pages>>

OperatorAck ==
    /\ pc = "ack_wait"
    /\ consecutive_no_next' = 0
    /\ pc' = "exec_ok"
    /\ UNCHANGED <<cfgVars, scrollVars, dirVars, extractVars,
                   mgrVars, ctlVars, query_index, retry_count, tab,
                   execVars, pauseVars, attemptVars, histVars, dir_pages>>

NextClick == ControlOp("next_click", "next_wait")
NextWait == ControlOp("next_wait", "next_pause")
PauseNextCall == StartPause("next_pause", PauseNext, "page_advance")

\* The next value of `page` of the for loop.
\* Faulty variant: the loop steps by two.
MutPageAdvanceByTwo ==
    /\ pc = "page_advance"
    /\ page' = page + 2
    /\ pc' = "page_loop"
    /\ UNCHANGED <<cfgVars, scrollVars, dirVars, extractVars,
                   mgrVars, ctlVars, orchVars, typed, pauseVars,
                   attemptVars, histVars, dir_pages>>

PageAdvance ==
    /\ pc = "page_advance"
    /\ page' = page + 1
    /\ pc' = "page_loop"
    /\ UNCHANGED <<cfgVars, scrollVars, dirVars, extractVars,
                   mgrVars, ctlVars, orchVars, typed, pauseVars,
                   attemptVars, histVars, dir_pages>>

\* ------------------------------------------------------------ specifications
Next ==
    \/ MainInitResultDir \/ GetOrCreate \/ GetOrCreateStore
    \/ ClearProfileDir \/ InitProfileDir \/ BrowserNew
    \/ RestartDrop \/ RestartSettle \/ RestartStore
    \/ LoopHead \/ GatTabs \/ GatNewTab \/ AcquireErr
    \/ AcquireRestartReturn \/ RestartResultIgnored
    \/ SetupStealthCdp \/ InjectStealthScripts
    \/ NavigateBlank \/ EvaluateInit \/ NavigateHome \/ WaitHome
    \/ PauseHomeCall \/ FindSearchBox \/ ClickSearchBox \/ TypeChar
    \/ PressEnter \/ WaitResults \/ PauseSubmitCall
    \/ PageLoop \/ PageEvaluate \/ PagePauseCall \/ GetContent
    \/ ExtractAndSave \/ ScrollToBottom \/ PauseScrolledCall \/ PageCap
    \/ NextFound \/ NextMiss \/ OperatorAck
    \/ NextClick \/ NextWait \/ PauseNextCall \/ PageAdvance
    \/ PauseSleep \/ PauseKeepalive \/ PauseReturn
    \/ OnOk \/ OnErr \/ MainReport

Spec == Init /\ [][Next]_vars

\* human_pause_with_keepalive alone, for every total_ms up to MaxTotalMs.
InitPause ==
    /\ InitCommon
    /\ ExtractIdle
    /\ ScrollIdle
    /\ DirIdle
    /\ nq = 0
    /\ max_pages = 0
    /\ max_consecutive_no_next = 0
    /\ profile = "absent"
    /\ pc = "pause_loop"
    /\ total_ms \in 0 .. MaxTotalMs
    /\ pause_ret = "pause_returned"

NextPause == PauseSleep \/ PauseKeepalive \/ PauseReturn

SpecPause == InitPause /\ [][NextPause]_vars

\* ----------------------------------------------------- extract_search_results
\* A matched <a> element: its href attribute (absent, or a string) and the
\* texts of the <h3> elements below it, in document order.
Hrefs == {<<>>, <<"">>, <<"u1">>, <<"u2">>}
H3Lists == {<<>>, <<"">>, <<"t1">>, <<"t2">>, <<"", "t1">>}
Anchors == [href : Hrefs, h3 : H3Lists]

\* `element.value().attr("href").unwrap_or("").to_string()`
Url(a) == IF a.href = <<>> THEN "" ELSE a.href[1]

\* `element.select(&title_selector).next().map(|h3| h3.text()..)
\*  .unwrap_or_default()`: the text of the first <h3>, "" without one.
Title(a) == IF a.h3 = <<>> THEN "" ELSE a.h3[1]

\* One iteration of `for element in document.select(&selector)`.
\* Faulty variant: the url is recorded as seen before the title is tested.
MutExtractElementSeenFirst ==
    /\ pc = "extract_loop"
    /\ element < Len(anchors)
    /\ LET a == anchors[element + 1]
           url == Url(a)
           title == Title(a)
       IN /\ seen_urls' = IF url # "" THEN seen_urls \cup {url} ELSE seen_urls
          /\ results' = IF url # "" /\ title # "" /\ url \notin seen_urls
                         THEN Append(results, <<title, url>>)
                         ELSE results
    /\ element' = element + 1
    /\ UNCHANGED <<cfgVars, scrollVars, dirVars, anchors, mgrVars, ctlVars, orchVars, execVars,
                   pauseVars, attemptVars, histVars, pc, dir_pages>>

ExtractElement ==
    /\ pc = "extract_loop"
    /\ element < Len(anchors)
    /\ LET a == anchors[element + 1]
           url == Url(a)
           title == Title(a)
       IN IF url # "" /\ title # "" /\ url \notin seen_urls
          THEN /\ seen_urls' = seen_urls \cup {url}
               /\ results' = Append(results, <<title, url>>)
          ELSE UNCHANGED <<seen_urls, results>>
    /\ element' = element + 1
    /\ UNCHANGED <<cfgVars, scrollVars, dirVars, anchors, mgrVars, ctlVars, orchVars, execVars,
                   pauseVars, attemptVars, histVars, pc, dir_pages>>

\* The end of the loop: `results` is returned.
ExtractReturn ==
    /\ pc = "extract_loop"
    /\ element = Len(anchors)
    /\ pc' = "extract_done"
    /\ UNCHANGED <<cfgVars, scrollVars, dirVars, extractVars, mgrVars, ctlVars, orchVars, execVars,
                   pauseVars, attemptVars, histVars, dir_pages>>

\* extract_search_results alone, for every list of up to MaxAnchors matched
\* elements.
InitExtract ==
    /\ InitCommon
    /\ ScrollIdle
    /\ DirIdle
    /\ nq = 0
    /\ max_pages = 0
    /\ max_consecutive_no_next = 0
    /\ profile = "absent"
    /\ total_ms = 0
    /\ pause_ret = "none"
    /\ pc = "extract_loop"
    /\ anchors \in UNION {[1 .. n -> Anchors] : n \in 0 .. MaxAnchors}
    /\ element = 0
    /\ results = <<>>
    /\ seen_urls = {}

NextExtract == ExtractElement \/ ExtractReturn

SpecExtract == InitExtract /\ [][NextExtract]_vars

\* ------------------------------------------------ human_scroll_to_bottom_medium
\* The page: the viewport and the content keep their heights while the
\* function runs, and window.scrollBy moves the offset within
\* 0 .. scroll_height - inner_height (0 when the content is shorter).
ViewportHeights == {800}
ContentHeights == {0, 805, 811, 900, MaxScrollHeight}

MaxScroll == Max(0, scroll_height - inner_height)
ScrollByTop(top) == Max(0, Min(scroll_y + top, MaxScroll))

\* `match current_mode { 0 => 175..=200, 1 => 200..=225, _ => 225..=250 }`
ScrollAmounts(mode) ==
    CASE mode = 0 -> MinForward .. 200
      [] mode = 1 -> 200 .. 225
      [] OTHER -> 225 .. 250

\* `rng.generate_range(38_i32..=112)`
BackAmounts == 38 .. MaxBack

\* `rng.generate_range(0_u8..=2)` and `rng.generate_range(8_u32..=25)`
Modes == 0 .. 2
ModeSteps == 8 .. 25

\* The head of the loop: the scroll state is evaluated (`?`); the loop breaks
\* when `scroll_y + inner_height >= scroll_height - 10.0`; otherwise the mode
\* is drawn again when mode_steps_remaining is 0, and the counter goes down
\* by one. The expression evaluated yields the three numbers, so the
\* defaults of `unwrap_or` are not taken.
\* Faulty variant: the mode is drawn again at every iteration.
MutScrollQueryRedraws ==
    /\ pc = "scroll_query"
    /\ \E ok \in BOOLEAN :
         IF ~ok
         THEN pc' = "scroll_err"
              /\ UNCHANGED <<mode_steps_remaining, current_mode>>
         ELSE IF scroll_y + inner_height >= scroll_height - Tolerance
         THEN pc' = "scroll_ok"
              /\ UNCHANGED <<mode_steps_remaining, current_mode>>
         ELSE /\ pc' = "scroll_by"
              /\ \E m \in Modes, n \in ModeSteps :
                   /\ current_mode' = m
                   /\ mode_steps_remaining' = n - 1
    /\ UNCHANGED <<cfgVars, dirVars, extractVars, mgrVars, ctlVars, orchVars,
                   execVars, pauseVars, attemptVars, histVars, dir_pages,
                   scroll_y, inner_height, scroll_height, gain>>

ScrollQuery ==
    /\ pc = "scroll_query"
    /\ \E ok \in BOOLEAN :
         IF ~ok
         THEN pc' = "scroll_err"
              /\ UNCHANGED <<mode_steps_remaining, current_mode>>
         ELSE IF scroll_y + inner_height >= scroll_height - Tolerance
         THEN pc' = "scroll_ok"
              /\ UNCHANGED <<mode_steps_remaining, current_mode>>
         ELSE /\ pc' = "scroll_by"
              /\ IF mode_steps_remaining = 0
                 THEN \E m \in Modes, n \in ModeSteps :
                        /\ current_mode' = m
                        /\ mode_steps_remaining' = n - 1
                 ELSE /\ mode_steps_remaining' = mode_steps_remaining - 1
                      /\ UNCHANGED current_mode
    /\ UNCHANGED <<cfgVars, dirVars, extractVars, mgrVars, ctlVars, orchVars,
                   execVars, pauseVars, attemptVars, histVars, dir_pages,
                   scroll_y, inner_height, scroll_height, gain>>

\* `tab.evaluate("window.scrollBy({ top: scroll_amount, .. })")?` followed by
\* `thread::sleep(base_delay)`.
\* Faulty variant: the amount is drawn from 0 .. 250.
MutScrollByAnyAmount ==
    /\ pc = "scroll_by"
    /\ \E ok \in BOOLEAN, scroll_amount \in 0 .. 250 :
         IF ok
         THEN /\ scroll_y' = ScrollByTop(scroll_amount)
              /\ gain' = Min(ScrollByTop(scroll_amount) - scroll_y, MinForward)
              /\ pc' = "scroll_pause_short"
         ELSE pc' = "scroll_err" /\ UNCHANGED <<scroll_y, gain>>
    /\ UNCHANGED <<cfgVars, dirVars, extractVars, mgrVars, ctlVars, orchVars,
                   execVars, pauseVars, attemptVars, histVars, dir_pages,
                   inner_height, scroll_height, mode_steps_remaining,
                   current_mode>>

ScrollBy ==
    /\ pc = "scroll_by"
    /\ \E ok \in BOOLEAN, scroll_amount \in ScrollAmounts(current_mode) :
         IF ok
         THEN /\ scroll_y' = ScrollByTop(scroll_amount)
              /\ gain' = Min(ScrollByTop(scroll_amount) - scroll_y, MinForward)
              /\ pc' = "scroll_pause_short"
         ELSE pc' = "scroll_err" /\ UNCHANGED <<scroll_y, gain>>
    /\ UNCHANGED <<cfgVars, dirVars, extractVars, mgrVars, ctlVars, orchVars,
                   execVars, pauseVars, attemptVars, histVars, dir_pages,
                   inner_height, scroll_height, mode_steps_remaining,
                   current_mode>>

\* `if rng.generate_range(0_u32..100) < .. { human_pause_with_keepalive(..)?; }`
\* The pause is of at least 240 ms, so it evaluates a keep-alive, which can
\* return Err.
ScrollPause(from, to) ==
    /\ pc = from
    /\ \E taken \in BOOLEAN, ok \in BOOLEAN :
         pc' = IF taken /\ ~ok THEN "scroll_err" ELSE to
    /\ UNCHANGED <<cfgVars, dirVars, extractVars, mgrVars, ctlVars, orchVars,
                   execVars, pauseVars, attemptVars, histVars, dir_pages,
                   scrollVars>>

ScrollPauseShort == ScrollPause("scroll_pause_short", "scroll_pause_long")
ScrollPauseLong == ScrollPause("scroll_pause_long", "scroll_back")

\* `if rng.generate_range(0_u32..100) < 10 { scrollBy(-back_amount)?;
\* human_pause_with_keepalive(..)?; }`, the end of the loop body.
\* Faulty variant: the backward step is drawn from 38 .. 250.
MutScrollBackFar ==
    /\ pc = "scroll_back"
    /\ \/ /\ pc' = "scroll_query"
          /\ gain' = 0
          /\ UNCHANGED scroll_y
       \/ \E back_amount \in 38 .. 250, ok \in BOOLEAN, paused \in BOOLEAN :
            IF ~ok
            THEN pc' = "scroll_err" /\ UNCHANGED <<scroll_y, gain>>
            ELSE /\ scroll_y' = ScrollByTop(0 - back_amount)
                 /\ pc' = IF paused THEN "scroll_query" ELSE "scroll_err"
                 /\ gain' = IF paused THEN 0 ELSE gain
    /\ UNCHANGED <<cfgVars, dirVars, extractVars, mgrVars, ctlVars, orchVars,
                   execVars, pauseVars, attemptVars, histVars, dir_pages,
                   inner_height, scroll_height, mode_steps_remaining,
                   current_mode>>

ScrollBack ==
    /\ pc = "scroll_back"
    /\ \/ /\ pc' = "scroll_query"
          /\ gain' = 0
          /\ UNCHANGED scroll_y
       \/ \E back_amount \in BackAmounts, ok \in BOOLEAN, paused \in BOOLEAN :
            IF ~ok
            THEN pc' = "scroll_err" /\ UNCHANGED <<scroll_y, gain>>
            ELSE /\ scroll_y' = ScrollByTop(0 - back_amount)
                 /\ pc' = IF paused THEN "scroll_query" ELSE "scroll_err"
                 /\ gain' = IF paused THEN 0 ELSE gain
    /\ UNCHANGED <<cfgVars, dirVars, extractVars, mgrVars, ctlVars, orchVars,
                   execVars, pauseVars, attemptVars, histVars, dir_pages,
                   inner_height, scroll_height, mode_steps_remaining,
                   current_mode>>

\* human_scroll_to_bottom_medium alone, on a page that has just been loaded
\* (offset 0), for the heights above.
InitScroll ==
    /\ InitCommon
    /\ ExtractIdle
    /\ DirIdle
    /\ nq = 0
    /\ max_pages = 0
    /\ max_consecutive_no_next = 0
    /\ profile = "absent"
    /\ total_ms = 0
    /\ pause_ret = "none"
    /\ pc = "scroll_query"
    /\ scroll_y = 0
    /\ inner_height \in ViewportHeights
    /\ scroll_height \in ContentHeights
    /\ mode_steps_remaining = 0
    /\ current_mode = 0
    /\ gain = 0

NextScroll ==
    \/ ScrollQuery \/ ScrollBy \/ ScrollPauseShort \/ ScrollPauseLong
    \/ ScrollBack

SpecScroll == InitScroll /\ [][NextScroll]_vars

\* ------------------------------------------------------ init_query_result_dir
\* A query text is a sequence of characters; the texts of the query list are
\* drawn from QueryChars, which holds a letter, two of the characters that
\* are replaced and the character that replaces them.
QueryChars == {"a", "/", ":", "_"}
QueryTexts == UNION {[1 .. n -> QueryChars] : n \in 0 .. MaxNameLen}

\* `query.replace('/', "_").replace('\\', "_") .. .replace('|', "_")`
Replaced == {"/", "\\", ":", "*", "?", "\"", "<", ">", "|"}
SafeQuery(query) ==
    [i \in 1 .. Len(query) |-> IF query[i] \in Replaced THEN "_" ELSE query[i]]

\* `let query_dir = init_query_result_dir(result_base, query)?;` for the next
\* entry of the list: `result_base.join(&safe_query)` and create_dir_all,
\* whose Err ends run_all_queries.
InitQueryResultDir ==
    /\ pc = "dir_init"
    /\ entry < Len(queries)
    /\ \E ok \in BOOLEAN :
         IF ok
         THEN /\ query_dir' = SafeQuery(queries[entry + 1])
              /\ entry' = entry + 1
              /\ pc' = "dir_save"
         ELSE pc' = "dir_err" /\ UNCHANGED <<query_dir, entry>>
    /\ UNCHANGED <<cfgVars, scrollVars, extractVars, mgrVars, ctlVars,
                   orchVars, execVars, pauseVars, attemptVars, histVars,
                   dir_pages, queries, files>>

\* save_search_results_json(&query_dir, query, page_num, ..): File::create of
\* `query_dir.join(format!("{}.json", page_num))` makes the file or empties
\* the one that is there, and the record written holds the query text.
SaveSearchResultsJson ==
    /\ pc = "dir_save"
    /\ \E page_num \in 1 .. MaxPagesBound :
         files' = {f \in files : ~(f.dir = query_dir /\ f.page = page_num)}
                    \cup {[dir |-> query_dir, page |-> page_num,
                           query |-> queries[entry]]}
    /\ UNCHANGED <<cfgVars, scrollVars, extractVars, mgrVars, ctlVars,
                   orchVars, execVars, pauseVars, attemptVars, histVars,
                   dir_pages, pc, queries, entry, query_dir>>

\* The runs of the executor for this entry are over: the loop goes to the
\* next entry.
NextEntry ==
    /\ pc = "dir_save"
    /\ pc' = "dir_init"
    /\ UNCHANGED <<cfgVars, scrollVars, extractVars, mgrVars, ctlVars,
                   orchVars, execVars, pauseVars, attemptVars, histVars,
                   dir_pages, dirVars>>

\* `while query_index < queries.len()` is over.
EntriesDone ==
    /\ pc = "dir_init"
    /\ entry = Len(queries)
    /\ pc' = "dir_done"
    /\ UNCHANGED <<cfgVars, scrollVars, extractVars, mgrVars, ctlVars,
                   orchVars, execVars, pauseVars, attemptVars, histVars,
                   dir_pages, dirVars>>

\* The result files of one run, whose result directory is new (it is named
\* after the start time), for every list of up to MaxQueries query texts.
InitDir ==
    /\ InitCommon
    /\ ExtractIdle
    /\ ScrollIdle
    /\ nq = 0
    /\ max_pages = 0
    /\ max_consecutive_no_next = 0
    /\ profile = "absent"
    /\ total_ms = 0
    /\ pause_ret = "none"
    /\ pc = "dir_init"
    /\ queries \in UNION {[1 .. n -> QueryTexts] : n \in 0 .. MaxQueries}
    /\ entry = 0
    /\ query_dir = <<>>
    /\ files = {}

NextDir ==
    \/ InitQueryResultDir \/ SaveSearchResultsJson \/ NextEntry
    \/ EntriesDone

SpecDir == InitDir /\ [][NextDir]_vars

\* ---------------------------------------------------------------- properties
CeilDiv(a, b) == (a + b - 1) \div b

RECURSIVE SumSeq(_)
SumSeq(q) == IF q = <<>> THEN 0 ELSE Head(q) + SumSeq(Tail(q))

\* C1: when the executor has failed 3 consecutive times for the current query
\* index, the Err arm advances the index by one with retry_count = 0, and no
\* index ever gets a 4th executor run.
C1_RetryBudgetExhaustion ==
    [][ /\ runs_cur' <= 3
        /\ (pc = "exec_err" /\ fails_cur = 3)
             => /\ query_index' = query_index + 1
                /\ retry_count' = 0
                /\ pc' = "loop_head" ]_vars

C1_Witness == pc = "exec_err" /\ fails_cur = 3 /\ runs_cur = 3 /\ retry_count = 2

\* C2 as stated: an executor run that ends Ok with the next-page control found
\* at every lookup, max_pages = N >= 1, has persisted the pages 1..N and has
\* looked up the control on the pages 1..N-1 only.
C2_Original ==
    (pc = "exec_ok" /\ max_pages >= 1 /\ ~attempt_miss)
        => /\ saved = 1 .. max_pages
           /\ lookup_pages = 1 .. (max_pages - 1)

\* C2 amended: the same, for a run in which every page yielded a non-empty
\* result list (an empty list is not written).
C2_PagesPersisted ==
    (pc = "exec_ok" /\ max_pages >= 1 /\ ~attempt_miss /\ ~attempt_empty)
        => /\ saved = 1 .. max_pages
           /\ saved \subseteq dir_pages
           /\ lookup_pages = 1 .. (max_pages - 1)

C2_Witness ==
    /\ pc = "exec_ok"
    /\ max_pages = 2
    /\ ~attempt_miss
    /\ ~attempt_empty
    /\ saved = {1, 2}
    /\ lookup_pages = {1}

\* C3: with max_consecutive_no_next = 2, a first consecutive miss ends the
\* executor run without the acknowledgment prompt, and the second consecutive
\* miss shows the prompt exactly once before the run ends.
C3_SecondMissPrompts ==
    (max_consecutive_no_next = 2 /\ attempt_miss /\ pc \in {"ack_wait", "exec_ok"})
        => /\ miss_streak = 1 => (prompted = 0 /\ pc = "exec_ok")
           /\ miss_streak = 2 => prompted = 1

C3_Witness ==
    /\ max_consecutive_no_next = 2
    /\ pc = "exec_ok"
    /\ attempt_miss
    /\ miss_streak = 2
    /\ prompted = 1
    /\ consecutive_no_next = 0

\* C4: while human_pause_with_keepalive runs with every evaluation succeeding,
\* every slice is at most 400 ms and is followed by one keep-alive call; when
\* the loop is over, the calls number ceil(total_ms / 400) and the slices sum
\* to total_ms.
C4_PauseSlices ==
    (pc \in {"pause_loop", "pause_eval"})
        => /\ \A k \in 1 .. Len(slices) : slices[k] <= 400
           /\ keepalives = IF pc = "pause_loop" THEN Len(slices) ELSE Len(slices) - 1
           /\ (pc = "pause_loop" /\ elapsed >= total_ms)
                => /\ keepalives = CeilDiv(total_ms, 400)
                   /\ SumSeq(slices) = total_ms

C4_Witness ==
    /\ pc = "pause_loop"
    /\ total_ms = 950
    /\ slices = <<400, 400, 150>>
    /\ keepalives = 3

\* C5 as stated: every browser process is started on an empty profile
\* directory.
C5_LaunchOnEmptyProfile == launched_on \in {"none", "empty"}

\* C6: at most one browser process is alive; while launch_browser runs the
\* manager holds no browser and no process is alive.
C6_AtMostOneSession ==
    /\ Cardinality(alive) <= 1
    /\ pc \in {"launch_clear", "launch_init", "launch_start"}
         => (browser = NoSession /\ alive = {})

C6_Witness == pc = "restart_ok" /\ Cardinality(alive) = 1 /\ browser \in alive

\* C7 as stated: after every executor run that returned Ok the index advances,
\* retry_count is 0 and restart() is called, the last query included.
C7_Original ==
    [][ pc = "exec_ok"
          => /\ query_index' = query_index + 1
             /\ retry_count' = 0
             /\ pc' = "restart_drop" ]_vars

\* C7 amended: ... and restart() is called, its result discarded, exactly when
\* a query is left in the list.
C7_RestartBetweenQueries ==
    [][ /\ pc = "exec_ok"
          => /\ query_index' = query_index + 1
             /\ retry_count' = 0
             /\ (query_index' < nq) => (pc' = "restart_drop" /\ restart_site' = "ok")
             /\ (query_index' >= nq) => pc' = "loop_head"
        /\ (pc \in {"restart_ok", "restart_err"} /\ restart_site = "ok")
          => /\ pc' = "loop_head"
             /\ query_index' = query_index
             /\ retry_count' = 0 ]_vars

C7_Witness ==
    /\ pc = "restart_drop"
    /\ restart_site = "ok"
    /\ query_index >= 1
    /\ query_index < nq
    /\ retry_count = 0

\* C8 as stated: an executor failure below the budget calls restart() with the
\* index unchanged, a failure moves the index only at the budget, and the
\* executor run that follows a failure below the budget is for the same index.
C8_Original ==
    [][ /\ (pc = "exec_err" /\ retry_count + 1 < 3)
          => (pc' = "restart_drop" /\ query_index' = query_index)
        /\ (pc = "exec_err" /\ query_index' # query_index)
          => retry_count + 1 >= 3
        /\ (pc = "stealth_inject" /\ pc' = "exec_nav_blank" /\ pending_retry # -1)
          => query_index = pending_retry ]_vars

\* C8 amended: ... the executor run that follows is for the same index unless
\* the query was skipped in between because session acquisition failed twice.
C8_RetrySameQuery ==
    [][ /\ (pc = "exec_err" /\ retry_count + 1 < 3)
          => /\ pc' = "restart_drop"
             /\ restart_site' = "err"
             /\ query_index' = query_index
             /\ retry_count' = retry_count + 1
        /\ (pc = "exec_err" /\ query_index' # query_index)
          => retry_count + 1 >= 3
        /\ (pc = "stealth_inject" /\ pc' = "exec_nav_blank" /\ pending_retry # -1)
          => IF acq_skipped
             THEN query_index > pending_retry
             ELSE query_index = pending_retry /\ retry_count >= 1 ]_vars

C8_Witness ==
    /\ pc = "exec_nav_blank"
    /\ runs_cur = 2
    /\ fails_cur = 1
    /\ retry_count = 1

\* C9: the first acquisition failure of an iteration calls restart() once; a
\* failed restart or a failed re-acquisition skips the query (index + 1,
\* retry_count = 0, back to the loop test without an executor run); a
\* re-acquisition that succeeds goes on to the executor for the same index.
C9_AcquisitionFailure ==
    [][ /\ (pc = "gat_err" /\ gat_call = 1)
          => /\ pc' = "restart_drop"
             /\ restart_site' = "acquire"
             /\ query_index' = query_index
        /\ (pc' = "restart_drop" /\ restart_site' = "acquire")
          => (pc = "gat_err" /\ gat_call = 1)
        /\ (\/ pc = "gat_err" /\ gat_call = 2
            \/ pc = "restart_err" /\ restart_site = "acquire")
          => /\ query_index' = query_index + 1
             /\ retry_count' = 0
             /\ pc' = "loop_head"
             /\ runs_cur' = 0
        /\ (pc = "restart_ok" /\ restart_site = "acquire")
          => /\ pc' = "gat_goc"
             /\ gat_call' = 2
             /\ query_index' = query_index
        /\ (gat_call = 2 /\ pc' = "stealth_cdp")
          => /\ query_index' = query_index
             /\ tab' = browser ]_vars

C9_Witness == pc = "loop_head" /\ acq_skipped /\ query_index >= 1 /\ retry_count = 0

\* C10: when the relaunch inside restart() fails, restart returns Err with the
\* manager holding no browser and no process alive; get_or_create with no
\* browser held starts a launch, and the tab it hands out belongs to the live
\* browser.
C10_RestartFailureLeavesNone ==
    [][ /\ pc' = "restart_err" => (browser' = NoSession /\ alive' = {})
        /\ (pc \in GocSites /\ browser = NoSession) => pc' = "launch_clear"
        /\ pc' = "stealth_cdp" => (tab' = browser' /\ tab' \in alive') ]_vars

C10_Witness ==
    /\ pc = "launch_clear"
    /\ launch_ret = "gat_goc"
    /\ browser = NoSession
    /\ query_index < nq

\* C11: a failure of setup_stealth_cdp or of inject_stealth_scripts neither
\* aborts nor skips the query: each step goes on to the next one with the index
\* and retry_count as they were, the executor is entered in the same
\* iteration, and retry_count still equals the executor failures of the index.
C11_StealthFailureNonFatal ==
    [][ /\ pc = "stealth_cdp"
          => /\ pc' = "stealth_inject"
             /\ query_index' = query_index
             /\ retry_count' = retry_count
        /\ pc = "stealth_inject"
          => /\ pc' = "exec_nav_blank"
             /\ runs_cur' = runs_cur + 1
             /\ query_index' = query_index
             /\ retry_count' = retry_count
             /\ retry_count' = fails_cur' ]_vars

C11_Witness ==
    /\ pc = "exec_nav_blank"
    /\ stealth_failed
    /\ retry_count = 0
    /\ runs_cur = 1

\* C12: every browser session receives the evasion scripts at most once, i.e.
\* the browser held by the manager never has a second successful
\* inject_stealth_scripts on its tab.
C12_InstalledOncePerSession == session_installs <= 1

\* C13: a control-channel operation of the executor that fails leaves the
\* executor in its Err return at once, the only step after it is the Err arm
\* of the orchestrator (no further operation of that run), and the Err arm
\* counts the failure: retry_count + 1, or at the budget the skip.
C13_ControlFailureAborts ==
    [][ /\ op_failed' => pc' = "exec_err"
        /\ (op_failed' /\ ~op_failed)
          => /\ fails_cur' = fails_cur + 1
             /\ runs_cur' = runs_cur
             /\ retry_count' = retry_count
        /\ (pc = "exec_err" /\ op_failed)
          => /\ pc' \in {"restart_drop", "loop_head"}
             /\ ~op_failed'
             /\ IF retry_count + 1 >= MAX_RETRIES
                THEN query_index' = query_index + 1 /\ retry_count' = 0
                ELSE query_index' = query_index
                     /\ retry_count' = retry_count + 1 ]_vars

C13_Witness ==
    /\ pc = "exec_err"
    /\ op_failed
    /\ saved # {}
    /\ page = 1

\* C14: a miss of the #pnnext lookup ends the page loop without a failure:
\* the executor goes to its Ok return (through the acknowledgment when the
\* threshold is reached) with no failure counted and retry_count untouched,
\* and the Ok arm advances the index and clears retry_count.
C14_MissIsSuccess ==
    [][ /\ (pc = "page_next" /\ pc' # "next_click")
          => /\ pc' = IF consecutive_no_next + 1 >= max_consecutive_no_next
                      THEN "ack_wait" ELSE "exec_ok"
             /\ attempt_miss'
             /\ fails_cur' = fails_cur
             /\ retry_count' = retry_count
             /\ page' = page
        /\ pc = "ack_wait"
          => /\ pc' = "exec_ok"
             /\ fails_cur' = fails_cur
             /\ retry_count' = retry_count
        /\ (pc = "exec_ok" /\ attempt_miss)
          => /\ query_index' = query_index + 1
             /\ retry_count' = 0 ]_vars

C14_Witness ==
    /\ pc = "exec_ok"
    /\ attempt_miss
    /\ prompted = 0
    /\ consecutive_no_next = 1
    /\ retry_count = 1

\* C15: whenever main has returned, the end time and the total duration have
\* been printed before.
C15_FinalReportReached == pc \in {"done", "aborted"} => reported

\* C16 as stated: at the start of every executor run consecutive_no_next is 0.
C16_Original == pc = "exec_nav_blank" => consecutive_no_next = 0

\* C16 amended: consecutive_no_next is one variable of run_all_queries for the
\* whole run. Only the #pnnext lookup and the acknowledgment change it (found
\* or acknowledged: 0, miss: + 1), so at the start of an executor run it holds
\* the misses of the earlier queries since the last found control or
\* acknowledgment, a value below the threshold.
C16_CounterCarriesOver ==
    [][ /\ consecutive_no_next' # consecutive_no_next
          => pc \in {"page_next", "ack_wait"}
        /\ (pc = "page_next" /\ pc' = "next_click") => consecutive_no_next' = 0
        /\ (pc = "page_next" /\ pc' # "next_click")
          => consecutive_no_next' = consecutive_no_next + 1
        /\ pc = "ack_wait" => consecutive_no_next' = 0
        /\ pc' = "exec_nav_blank"
          => /\ consecutive_no_next' <= miss_streak'
             /\ consecutive_no_next' < max_consecutive_no_next
                  \/ consecutive_no_next' = 0 ]_vars

C16_Witness ==
    /\ pc = "exec_nav_blank"
    /\ consecutive_no_next = 1
    /\ query_index = 1
    /\ retry_count = 0

\* C17: a page file is written only when the query directory holds no file
\* of that page number yet, i.e. no result file is written a second time.
C17_WrittenAtMostOnce ==
    [][ (pc = "page_extract" /\ saved' # saved)
          => (page + 1) \notin dir_pages ]_vars

\* C18: page_num = page + 1 is 1 when an executor run starts, changes only at
\* the end of a loop iteration whose #pnnext lookup found the control, then by
\* exactly + 1, and every page that is processed or written has a number in
\* 1 .. max_pages.
C18_PageNumbers ==
    [][ /\ pc' = "exec_nav_blank" => page' = 0
        /\ (page' # page /\ pc' # "exec_nav_blank")
          => /\ pc = "page_advance"
             /\ page' = page + 1
             /\ (page + 1) \in lookup_pages
             /\ ~attempt_miss
        /\ pc' = "page_eval" => (1 <= page' + 1 /\ page' + 1 <= max_pages)
        /\ pc' = "page_advance" => page' + 2 <= max_pages
        /\ saved' # saved
          => (saved' = {} \/ saved' = saved \cup {page + 1})
        /\ saved' \subseteq 1 .. max_pages ]_vars

C18_Witness ==
    /\ pc = "page_eval"
    /\ page = 1
    /\ max_pages = 2
    /\ saved = {1}

\* The anchors of the first n matched elements that have a non-empty url and a
\* non-empty title and whose url no earlier such anchor has, as (title, url)
\* pairs in document order.
Kept(n) ==
    {i \in 1 .. n :
        /\ Url(anchors[i]) # "" /\ Title(anchors[i]) # ""
        /\ \A j \in 1 .. (i - 1) :
             ~(/\ Url(anchors[j]) = Url(anchors[i])
               /\ Url(anchors[j]) # "" /\ Title(anchors[j]) # "")}

RECURSIVE KeptPairs(_, _)
KeptPairs(i, n) ==
    IF i > n THEN <<>>
    ELSE (IF i \in Kept(n)
          THEN <<(<<Title(anchors[i]), Url(anchors[i])>>)>>
          ELSE <<>>) \o KeptPairs(i + 1, n)

\* C19: after every iteration, and so at the return, results is exactly the
\* list of the anchors consumed so far that have a non-empty url and title,
\* the earliest one of each url, in document order; no pair has an empty
\* title or url and no url occurs twice.
C19_ExtractResults ==
    pc \in {"extract_loop", "extract_done"}
        => /\ results = KeptPairs(1, element)
           /\ \A k \in 1 .. Len(results) :
                results[k][1] # "" /\ results[k][2] # ""
           /\ \A k, l \in 1 .. Len(results) :
                results[k][2] = results[l][2] => k = l
           /\ pc = "extract_done" => element = Len(anchors)

C19_Witness ==
    /\ pc = "extract_done"
    /\ Len(anchors) = 3
    /\ Url(anchors[1]) = "u1" /\ Title(anchors[1]) = ""
    /\ Url(anchors[2]) = "u1" /\ Title(anchors[2]) = "t1"
    /\ Url(anchors[3]) = "u1" /\ Title(anchors[3]) = "t2"
    /\ results = << <<"t1", "u1">> >>

C21_RestartBetweenRuns == session_runs <= 1

\* C22 as stated: restart() tears down, wipes the profile, waits, launches,
\* i.e. the wipe is the step after the teardown and the settle wait follows it.
C22_Original ==
    [][ /\ pc = "restart_drop" => pc' = "launch_clear"
        /\ (pc = "launch_clear" /\ launch_ret = "restart")
          => pc' = "restart_sleep" ]_vars

\* C22 amended: restart() drops the browser, sleeps the settle interval with
\* the profile untouched, and then launch_browser wipes the profile, creates
\* it again and starts the new browser; the profile is wiped only while no
\* browser is held and none is alive, and it changes only inside
\* launch_browser.
C22_RestartOrder ==
    [][ /\ pc = "restart_drop"
          => /\ pc' = "restart_sleep"
             /\ browser' = NoSession /\ alive' = {}
             /\ profile' = profile
        /\ pc = "restart_sleep"
          => /\ pc' = "launch_clear"
             /\ launch_ret' = "restart"
             /\ alive' = {} /\ profile' = profile
        /\ pc = "launch_clear"
          => /\ pc' = "launch_init"
             /\ browser = NoSession /\ alive = {}
        /\ pc = "launch_init" => pc' \in {"launch_start", "launch_return"}
        /\ profile' # profile
          => pc \in {"launch_clear", "launch_init", "launch_start"}
        /\ alive' \ alive # {} => pc = "launch_start" ]_vars

C22_Witness ==
    /\ pc = "launch_clear"
    /\ launch_ret = "restart"
    /\ restart_site = "err"
    /\ profile = "data"
    /\ alive = {}

\* Positions of main, run_all_queries, get_active_tab, launch_browser and the
\* manager, where no operation is issued on the orchestrator's tab.
OrchPcs ==
    {"main_init", "main_goc", "aborted", "done", "run_ok", "run_err",
     "loop_head", "gat_goc", "gat_goc2", "gat_tabs", "gat_newtab", "gat_err",
     "launch_clear", "launch_init", "launch_start", "launch_return",
     "restart_drop", "restart_sleep", "restart_ok", "restart_err",
     "exec_ok", "exec_err"}

\* C23: wherever an operation is issued on the tab (the evasion steps and the
\* executor), the tab is a tab of the browser the manager holds now and that
\* browser is alive; the evasion steps are entered only from get_active_tab,
\* and after a restart the loop goes back to get_active_tab.
C23_NoStaleTab ==
    [][ /\ pc' \notin OrchPcs
          => /\ tab' # NoSession
             /\ tab' = browser'
             /\ tab' \in alive'
        /\ pc' = "stealth_cdp"
          => /\ pc \in {"gat_tabs", "gat_newtab"}
             /\ tab' = browser
        /\ pc \in {"restart_ok", "restart_err"}
          => pc' \in {"loop_head", "gat_goc"} ]_vars

C23_Witness ==
    /\ pc = "exec_nav_blank"
    /\ retry_count = 1
    /\ tab = 2
    /\ browser = 2
    /\ alive = {2}

C25_QueriesInOrder ==
    [][ /\ query_index' \in {query_index, query_index + 1}
        /\ query_index' <= nq
        /\ pc' = "loop_head" => retry_count' \in 0 .. 2
        /\ pc' = "exec_nav_blank"
          => /\ query_index' < nq
             /\ query_index' = query_index
             /\ runs_cur' = retry_count' + 1
             /\ runs_cur' <= MAX_RETRIES
        /\ query_index' # query_index => (runs_cur' = 0 /\ retry_count' = 0) ]_vars

C25_Witness ==
    /\ pc = "loop_head"
    /\ retry_count = 2
    /\ query_index = 1
    /\ runs_cur = 2

MainPart ==
    CASE pc = "main_init" -> 4
      [] pc = "main_goc" -> 3
      [] pc \in {"launch_clear", "launch_init", "launch_start", "launch_return"}
           /\ launch_ret = "main_goc" -> 3
      [] pc \in {"run_ok", "run_err"} -> 1
      [] pc \in {"done", "aborted"} -> 0
      [] OTHER -> 2

Stage ==
    IF MainPart # 2 THEN 0
    ELSE IF restart_site \in {"ok", "err"} THEN 6
    ELSE IF pc = "loop_head" THEN 5
    ELSE IF restart_site = "acquire" THEN 3
    ELSE IF gat_call = 1 THEN 4
    ELSE IF gat_call = 2 THEN 2
    ELSE 1

LaunchBase ==
    CASE launch_ret = "gat_goc" -> 20
      [] launch_ret = "gat_goc2" -> 14
      [] OTHER -> 5

LoopPcs ==
    {"page_loop", "page_eval", "page_pause", "page_content", "page_extract",
     "page_scroll", "page_pause_scrolled", "page_cap", "page_next",
     "next_click", "ack_wait", "next_wait", "next_pause", "page_advance"}

StagePos(p) ==
    CASE p = "launch_clear" -> 2 * (LaunchBase - 1)
      [] p = "launch_init" -> 2 * (LaunchBase - 2)
      [] p = "launch_start" -> 2 * (LaunchBase - 3)
      [] p = "launch_return" -> 2 * (LaunchBase - 4)
      [] p = "gat_goc" -> 40
      [] p = "gat_tabs" -> 30
      [] p = "gat_goc2" -> 28
      [] p = "gat_newtab" -> 18
      [] p = "stealth_cdp" -> 16
      [] p = "stealth_inject" -> 14
      [] p = "gat_err" -> 12
      [] p = "main_goc" -> 10
      [] p = "restart_drop" -> 12
      [] p = "restart_sleep" -> 10
      [] p = "exec_nav_blank" -> 80
      [] p = "exec_eval" -> 78
      [] p = "exec_nav_home" -> 76
      [] p = "exec_wait_home" -> 74
      [] p = "exec_pause_home" -> 72
      [] p = "exec_find_box" -> 70
      [] p = "exec_click_box" -> 68
      [] p = "exec_type" -> 66
      [] p = "exec_press_enter" -> 64
      [] p = "exec_wait_results" -> 62
      [] p = "exec_pause_submit" -> 60
      [] p \in LoopPcs -> 58
      [] OTHER -> 0

LoopPos(p) ==
    CASE p = "page_loop" -> 26
      [] p = "page_eval" -> 24
      [] p = "page_pause" -> 22
      [] p = "page_content" -> 20
      [] p = "page_extract" -> 18
      [] p = "page_scroll" -> 16
      [] p = "page_pause_scrolled" -> 14
      [] p = "page_cap" -> 12
      [] p = "page_next" -> 10
      [] p \in {"next_click", "ack_wait"} -> 8
      [] p = "next_wait" -> 6
      [] p = "next_pause" -> 4
      [] p = "page_advance" -> 2
      [] OTHER -> 0

InPause == pc \in {"pause_loop", "pause_eval"}

\* The parts of the measure are numbered from the left.
MeasureParts == 1 .. 10

Measure(k) ==
    CASE k = 1 -> MainPart
      [] k = 2 -> nq - query_index
      [] k = 3 -> MAX_RETRIES - retry_count
      [] k = 4 -> Stage
      [] k = 5 -> IF InPause /\ pause_ret \notin LoopPcs
                  THEN StagePos(pause_ret) + 1
                  ELSE StagePos(IF InPause THEN pause_ret ELSE pc)
      [] k = 6 -> max_pages - page
      [] k = 7 -> IF InPause THEN LoopPos(pause_ret) + 1 ELSE LoopPos(pc)
      [] k = 8 -> QueryLen - typed
      [] k = 9 -> total_ms - elapsed
      [] k = 10 -> IF pc = "pause_eval" THEN 1 ELSE 0

\* The states in which some action of Next can be taken.
CanStep ==
    \/ pc \in (GocSites \cup OrchPcs \cup LoopPcs)
               \ {"done", "aborted", "launch_return", "restart_ok",
                  "restart_err"}
    \/ StagePos(pc) >= 14
    \/ InPause
    \/ pc = "launch_return" /\ launch_ret \in GocSites \cup {"restart"}
    \/ pc \in {"restart_ok", "restart_err"}
         /\ restart_site \in {"acquire", "ok", "err"}

CanStepIsEnabled == CanStep <=> ENABLED Next

\* The step lowers the measure in the order that compares the parts from
\* the left, and leaves no part below 0.
MeasureFalls ==
    /\ \E k \in MeasureParts :
           /\ Measure(k)' < Measure(k)
           /\ \A j \in 1 .. (k - 1) : Measure(j)' = Measure(j)
    /\ \A k \in MeasureParts : Measure(k)' >= 0

C29_Original ==
    /\ pc \in {"loop_head", "page_loop"} =>
           IF max_consecutive_no_next >= 1
           THEN consecutive_no_next < max_consecutive_no_next
           ELSE consecutive_no_next = 0
    /\ consecutive_no_next <= max_consecutive_no_next

\* C29 amended: at the start of every loop iteration and of every page step
\* the counter is below the threshold (0 when the threshold is 0); the counter
\* never exceeds the larger of the threshold and 1; it is at or above that
\* value only while the run waits for the acknowledgment, and the step that
\* leaves the wait sets it to 0.
C29_CounterBelowThreshold ==
    [][ /\ pc' \in {"loop_head", "page_loop"} =>
               IF max_consecutive_no_next' >= 1
               THEN consecutive_no_next' < max_consecutive_no_next'
               ELSE consecutive_no_next' = 0
        /\ consecutive_no_next' <= Max(max_consecutive_no_next', 1)
        /\ consecutive_no_next' >= Max(max_consecutive_no_next', 1) =>
               pc' = "ack_wait"
        /\ pc = "ack_wait" => consecutive_no_next' = 0 ]_vars

C29_Witness ==
    /\ pc = "exec_ok"
    /\ max_consecutive_no_next = 2
    /\ consecutive_no_next = 0
    /\ prompted = 1
    /\ miss_streak >= 2

\* The halt test of the loop passes on the scroll state of the page.
AtBottom == scroll_y + inner_height >= scroll_height - Tolerance

\* C27: the function returns Ok exactly from a query of the scroll state at
\* which offset + viewport >= content - 10, and that query is followed by no
\* scroll step; the offset moves only in the two scrollBy calls; the mode
\* changes only at a query made with the steps-remaining counter at 0, which
\* then holds 8..25 less the step being made; at every other query that goes
\* on the counter goes down by one and the mode stays; the counter is never
\* below 0.
C27_HaltsAtBottom ==
    [][ /\ pc' = "scroll_ok" => pc = "scroll_query" /\ AtBottom
        /\ (pc = "scroll_query" /\ AtBottom) =>
               pc' \in {"scroll_ok", "scroll_err"} /\ scroll_y' = scroll_y
        /\ (pc = "scroll_query" /\ ~AtBottom) =>
               pc' \in {"scroll_by", "scroll_err"}
        /\ scroll_y' # scroll_y => pc \in {"scroll_by", "scroll_back"}
        /\ current_mode' # current_mode =>
               pc = "scroll_query" /\ mode_steps_remaining = 0
        /\ IF pc = "scroll_query" /\ pc' = "scroll_by"
           THEN IF mode_steps_remaining = 0
                THEN mode_steps_remaining' \in 7 .. 24
                ELSE /\ mode_steps_remaining' = mode_steps_remaining - 1
                     /\ current_mode' = current_mode
           ELSE /\ mode_steps_remaining' = mode_steps_remaining
                /\ current_mode' = current_mode
        /\ mode_steps_remaining' >= 0
        /\ pc' = "scroll_by" => current_mode' \in Modes ]_vars

C27_Witness ==
    /\ pc = "scroll_ok"
    /\ scroll_height = MaxScrollHeight
    /\ AtBottom
    /\ scroll_y < MaxScroll
    /\ mode_steps_remaining < 24

\* C28 as stated: every iteration of the loop moves the offset forward by at
\* least 175 - 112 = 63.
C28_Original ==
    [][ (pc = "scroll_back" /\ pc' = "scroll_query") =>
            gain - (scroll_y - scroll_y') >= MinForward - MaxBack ]_vars

\* C28 amended: the forward step moves the offset forward by at least 175 or
\* up to the largest offset of the page; the backward step moves it back by
\* at most 112; an iteration whose forward step is not cut at the largest
\* offset moves the offset forward by at least 63; an iteration whose forward
\* step is cut ends at the largest offset, where the next query halts the
\* loop, unless its backward step is taken, and then it ends at most 112
\* below the largest offset.
C28_Progress ==
    [][ /\ (pc = "scroll_by" /\ pc' = "scroll_pause_short") =>
               \/ scroll_y' >= scroll_y + MinForward
               \/ scroll_y' = MaxScroll /\ scroll_y' >= scroll_y
        /\ pc = "scroll_back" =>
               scroll_y' <= scroll_y /\ scroll_y' >= scroll_y - MaxBack
        /\ (pc = "scroll_back" /\ pc' = "scroll_query" /\ gain = MinForward) =>
               gain - (scroll_y - scroll_y') >= MinForward - MaxBack
        /\ (pc = "scroll_back" /\ pc' = "scroll_query" /\ gain < MinForward) =>
               /\ scroll_y = MaxScroll
               /\ scroll_y' = scroll_y => AtBottom'
               /\ scroll_y' >= MaxScroll - MaxBack
        /\ scroll_y' \in 0 .. MaxScroll ]_vars

C28_Witness ==
    /\ pc = "scroll_query"
    /\ scroll_height = MaxScrollHeight
    /\ scroll_y = MaxScroll - MaxBack
    /\ mode_steps_remaining \in 1 .. 5

\* C30: two entries of the query list with different texts never write the
\* same result file (their directories being different): a file written for
\* one query text is never written again for another.
C30_NoOverwrite ==
    [][ \A f \in files : \A g \in files' :
            (g.dir = f.dir /\ g.page = f.page) => g.query = f.query ]_vars

====
